---- MODULE Spec2Model ----
(***************************************************************************)
(* Message lifecycle and link redemption of the accept-connect backend     *)
(* (src/backend/src/routes/messages.ts over the messages table of          *)
(* src/backend/src/db/schema.ts), the proximity sessions of                *)
(* src/backend/src/routes/location.ts and the account deletion of the      *)
(* users routes.                                                           *)
(*                                                                         *)
(* A handler that reads a row and later writes it is split at the await    *)
(* between its findFirst and its update: the first step runs the checks    *)
(* and either answers or leaves a request in flight, the second step runs  *)
(* the update and answers.  Handlers that only read, or only insert, are   *)
(* one step.  Every request carries a session that requireAuth accepts.    *)
(* createdAt / updatedAt are not modelled: no handler reads them.          *)
(***************************************************************************)
EXTENDS Integers, Sequences, FiniteSets, Bags, TLC

VARIABLES
    now,        \* wall clock, what new Date() / Date.now() returns (ms)
    messages,   \* the messages table: a sequence of rows, a row's id is its index
    inflight,   \* bag of requests between their findFirst and their update
    resp,       \* the answer of the handler step taken last
    sessions,   \* the proximity_sessions table, a row's id is its index
    attaching,  \* bag of send requests between their awaits
    history,    \* what the log tells of a session: who connected to it, and
                \* whether its message was retrieved after that
    connections,    \* the device_connections table, a row's id is its index
    resetTokens,    \* the password_reset_tokens table, a row's id is its index
    pushTokens      \* the push_tokens table, a row's id is its index

vars == <<now, messages, inflight, resp, sessions, attaching, history,
          connections, resetTokens, pushTokens>>

\* What the message routes leave alone.
proximity == <<sessions, attaching, history>>

\* What the message routes and the proximity routes leave alone.
elsewhere == <<connections, resetTokens, pushTokens>>

----------------------------------------------------------------------------
\* Bounds of the model.

MaxMsgs == 1        \* rows the messages table may hold
MaxTime == 3        \* last value of the clock
MaxInFlight == 2    \* requests that may be between their read and their write
MaxSessions == 1    \* rows the proximity_sessions table may hold
MaxAttaching == 2   \* send requests that may be between their awaits
MaxRows == 2        \* rows of the messages table where creation is studied

----------------------------------------------------------------------------
\* Values.

NULL == "null"

Users == {"u1", "u2"}

\* user.email of each user row.
EmailOf(u) == IF u = "u1" THEN "u1@" ELSE "u2@"

\* recipientEmail of a request body (NULL: omitted); "x@" belongs to nobody.
EmailInputs == {NULL, "u2@", "x@"}

\* Link tokens randomBytes(32).toString('hex') may return.
Tokens == {"t1", "t2"}

\* Message ids a caller may put in /api/messages/:id/...
Ids == 1 .. MaxMsgs

\* Request bodies: content as a sequence of characters.
Contents == {<<>>, <<" ">>, <<" ", "h">>}

Whitespace == {" "}

\* 24 * 60 * 60 * 1000, the default expirationMs.
DefaultExpirationMs == 24 * 60 * 60 * 1000

\* An optional number, boolean or timestamp is <<>> (undefined / null) or <<v>>.
Some(v) == <<v>>
None == <<>>

\* linkExpiresIn of a request body, in ms.
ExpiresInInputs == {None, Some(0), Some(1)}

\* singleUse of a request body.
SingleUseInputs == {None, Some(TRUE), Some(FALSE)}

\* recipientId of a request body; "ghost" is the id of no user row.
RecipientIdInputs == {NULL, "ghost"} \cup Users

\* action of a respond body.
ActionInputs == {"accept", "reject", "maybe"}

NoResp == [op |-> "none", code |-> 0, kind |-> "none"]

Reply(op, code, kind) == [op |-> op, code |-> code, kind |-> kind]

----------------------------------------------------------------------------
\* Pure helpers.

RECURSIVE TrimStart(_)
TrimStart(s) ==
    IF s # <<>> /\ Head(s) \in Whitespace THEN TrimStart(Tail(s)) ELSE s

RECURSIVE TrimEnd(_)
TrimEnd(s) ==
    IF s # <<>> /\ s[Len(s)] \in Whitespace
    THEN TrimEnd(SubSeq(s, 1, Len(s) - 1))
    ELSE s

\* String.prototype.trim
Trim(s) == TrimEnd(TrimStart(s))

\* !content || content.trim().length === 0
ContentMissing(content) == content = <<>> \/ Len(Trim(content)) = 0

\* findFirst({ where: eq(messages.linkToken, token) }): the id of the row
\* found, or None.
FindByToken(token) ==
    IF \E i \in DOMAIN messages : messages[i].linkToken = token
    THEN Some(CHOOSE i \in DOMAIN messages : messages[i].linkToken = token)
    ELSE None

\* findFirst({ where: eq(messages.id, id) }): the id of the row found, or None.
FindById(id) == IF id \in DOMAIN messages THEN Some(id) ELSE None

\* message.linkExpiresAt && new Date() > message.linkExpiresAt
LinkExpired(m, t) == m.linkExpiresAt # None /\ t > m.linkExpiresAt[1]

\* message.singleUse && message.linkUsed
LinkSpent(m) == m.singleUse /\ m.linkUsed

\* The checks GET /link/:token and POST /:token/respond run on the row they
\* found, in the order of the code; the kind of the first that fails, else "OK".
LinkCheck_UsedFirst(m, t) ==
    IF LinkSpent(m) THEN "AlreadyUsed"
    ELSE IF LinkExpired(m, t) THEN "Expired"
    ELSE "OK"

LinkCheck(m, t) ==
    IF LinkExpired(m, t) THEN "Expired"
    ELSE IF LinkSpent(m) THEN "AlreadyUsed"
    ELSE "OK"

\* message.recipientId && message.recipientId !== session.user.id
NotRecipient(m, u) == m.recipientId # NULL /\ m.recipientId # u

----------------------------------------------------------------------------
\* The row POST /api/messages inserts.
NewMessage(u, content, recipient, linkExpiresIn, singleUse, token) ==
    [ senderId      |-> u,
      recipientId   |-> recipient,
      content       |-> content,
      status        |-> "pending",
      linkToken     |-> token,
      linkExpiresAt |->
          Some(now + (IF linkExpiresIn = None \/ linkExpiresIn[1] = 0
                      THEN DefaultExpirationMs
                      ELSE linkExpiresIn[1])),
      singleUse     |-> IF singleUse = None THEN TRUE ELSE singleUse[1],
      linkUsed      |-> FALSE ]

\* finalRecipientId of POST /api/messages; "unknown" when the e-mail lookup fails.
FinalRecipient(recipientEmail, recipientId) ==
    IF recipientEmail # NULL
    THEN IF \E r \in Users : EmailOf(r) = recipientEmail
         THEN CHOOSE r \in Users : EmailOf(r) = recipientEmail
         ELSE "unknown"
    ELSE recipientId

\* The insert violates a constraint of the table: link_token is unique
\* (among the rows that have one), recipient_id references user.id.
InsertRejected_TokensRepeat(row) ==
    row.recipientId # NULL /\ row.recipientId \notin Users

InsertRejected(row) ==
    \/ /\ row.linkToken # NULL
       /\ \E i \in DOMAIN messages : messages[i].linkToken = row.linkToken
    \/ row.recipientId # NULL /\ row.recipientId \notin Users

\* newStatus of POST /api/messages/:token/respond.
NewStatus(action) == IF action = "accept" THEN "accepted" ELSE "rejected"

\* message.recipientId || session.user.id
RecipientOrUser(m, u) == IF m.recipientId # NULL THEN m.recipientId ELSE u

\* The set({...}) of POST /api/messages/:token/respond applied to row m; r
\* holds the values the handler computed from the row it read.
RespondSet_LinkLeftOpen(m, r) ==
    [m EXCEPT !.status = r.status, !.recipientId = r.recipientId]

RespondSet_TokenRevoked(m, r) ==
    [m EXCEPT !.status = r.status, !.recipientId = r.recipientId,
              !.linkUsed = TRUE, !.linkToken = NULL]

RespondSet(m, r) ==
    [m EXCEPT !.status = r.status, !.recipientId = r.recipientId,
              !.linkUsed = TRUE]

\* The set({...}) of POST /api/messages/:id/accept.
AcceptSet(m) == [m EXCEPT !.status = "accepted", !.linkUsed = TRUE]

\* The set({...}) of POST /api/messages/:id/reject.
RejectSet(m) == [m EXCEPT !.status = "rejected"]

\* A request that has passed its checks and not yet run its update: the
\* where-key of the update (token, or id; the other is NULL / 0) and the
\* values of its set({...}) that were computed from the request and the row
\* read (status and recipientId of respond; NULL where the set has a literal).
Pending(op, token, id, status, recipient) ==
    [op |-> op, token |-> token, id |-> id, status |-> status,
     recipientId |-> recipient]

CanStart == BagCardinality(inflight) < MaxInFlight

----------------------------------------------------------------------------
Init ==
    /\ now = 0
    /\ messages = <<>>
    /\ inflight = EmptyBag
    /\ resp = NoResp
    /\ sessions = <<>>
    /\ attaching = EmptyBag
    /\ history = [connected |-> {}, retrieved |-> {}]
    /\ connections = <<>>
    /\ resetTokens = <<>>
    /\ pushTokens = <<>>

\* Time passes.
Tick ==
    /\ now < MaxTime
    /\ now' = now + 1
    /\ UNCHANGED <<messages, inflight, resp, proximity, elsewhere>>

\* POST /api/messages by user u.
CreateMessage(u, content, recipientEmail, recipientId, linkExpiresIn, singleUse, token) ==
    LET recipient == FinalRecipient(recipientEmail, recipientId)
        row == NewMessage(u, content, recipient, linkExpiresIn, singleUse, token)
    IN  /\ UNCHANGED <<now, inflight, proximity, elsewhere>>
        /\ IF ContentMissing(content)
           THEN /\ resp' = Reply("create", 400, "Validation")
                /\ UNCHANGED messages
           ELSE IF recipientEmail # NULL /\ recipient = "unknown"
           THEN /\ resp' = Reply("create", 404, "NotFound")
                /\ UNCHANGED messages
           ELSE IF InsertRejected(row)
           THEN /\ resp' = Reply("create", 500, "ServerError")
                /\ UNCHANGED messages
           ELSE /\ messages' = Append(messages, row)
                /\ resp' = Reply("create", 200, "OK")

\* GET /api/messages/link/:token.
ResolveByToken_Consuming(token) ==
    LET found == FindByToken(token)
        id == found[1]
    IN  /\ UNCHANGED <<now, inflight, proximity, elsewhere>>
        /\ IF found = None
           THEN /\ resp' = Reply("resolve", 404, "NotFound")
                /\ UNCHANGED messages
           ELSE IF LinkCheck(messages[id], now) # "OK"
           THEN /\ resp' = Reply("resolve", 410, LinkCheck(messages[id], now))
                /\ UNCHANGED messages
           ELSE /\ resp' = Reply("resolve", 200, "OK")
                /\ messages' = [messages EXCEPT ![id].linkUsed = TRUE]

ResolveByToken(token) ==
    LET found == FindByToken(token)
        id == found[1]
    IN  /\ UNCHANGED <<now, messages, inflight, proximity, elsewhere>>
        /\ IF found = None
           THEN resp' = Reply("resolve", 404, "NotFound")
           ELSE IF LinkCheck(messages[id], now) # "OK"
           THEN resp' = Reply("resolve", 410, LinkCheck(messages[id], now))
           ELSE resp' = Reply("resolve", 200, "OK")

\* POST /api/messages/:token/respond by user u, up to its findFirst and checks.
RespondFind(u, token, action) ==
    LET found == FindByToken(token)
        id == found[1]
    IN  /\ UNCHANGED <<now, messages, proximity, elsewhere>>
        /\ IF action \notin {"accept", "reject"}
           THEN /\ resp' = Reply("respond", 400, "Validation")
                /\ UNCHANGED inflight
           ELSE IF found = None
           THEN /\ resp' = Reply("respond", 404, "NotFound")
                /\ UNCHANGED inflight
           ELSE IF LinkCheck(messages[id], now) # "OK"
           THEN /\ resp' = Reply("respond", 410, LinkCheck(messages[id], now))
                /\ UNCHANGED inflight
           ELSE /\ CanStart
                /\ inflight' = inflight (+)
                      SetToBag({Pending("respond", token, 0, NewStatus(action),
                                        RecipientOrUser(messages[id], u))})
                /\ UNCHANGED resp

\* POST /api/messages/:token/respond, its update ... where linkToken = token.
RespondUpdate(r) ==
    /\ BagIn(r, inflight)
    /\ r.op = "respond"
    /\ inflight' = inflight (-) SetToBag({r})
    /\ messages' = [i \in DOMAIN messages |->
                      IF messages[i].linkToken = r.token
                      THEN RespondSet(messages[i], r)
                      ELSE messages[i]]
    /\ resp' = IF \E i \in DOMAIN messages : messages[i].linkToken = r.token
               THEN Reply("respond", 200, "OK")
               ELSE Reply("respond", 500, "ServerError")
    /\ UNCHANGED <<now, proximity, elsewhere>>

\* POST /api/messages/:id/accept and /reject by user u, up to the checks.
DecideFind(op, u, id) ==
    /\ UNCHANGED <<now, messages, proximity, elsewhere>>
    /\ IF FindById(id) = None
       THEN /\ resp' = Reply(op, 404, "NotFound")
            /\ UNCHANGED inflight
       ELSE IF NotRecipient(messages[id], u)
       THEN /\ resp' = Reply(op, 403, "Forbidden")
            /\ UNCHANGED inflight
       ELSE /\ CanStart
            /\ inflight' = inflight (+) SetToBag({Pending(op, NULL, id, NULL, NULL)})
            /\ UNCHANGED resp

AcceptFind(u, id) == DecideFind("accept", u, id)

RejectFind(u, id) == DecideFind("reject", u, id)

\* POST /api/messages/:id/accept, its update ... where id = :id.
AcceptUpdate(r) ==
    /\ BagIn(r, inflight)
    /\ r.op = "accept"
    /\ inflight' = inflight (-) SetToBag({r})
    /\ messages' = [i \in DOMAIN messages |->
                      IF i = r.id THEN AcceptSet(messages[i]) ELSE messages[i]]
    /\ resp' = Reply("accept", 200, "OK")
    /\ UNCHANGED <<now, proximity, elsewhere>>

\* POST /api/messages/:id/reject, its update ... where id = :id.
RejectUpdate(r) ==
    /\ BagIn(r, inflight)
    /\ r.op = "reject"
    /\ inflight' = inflight (-) SetToBag({r})
    /\ messages' = [i \in DOMAIN messages |->
                      IF i = r.id THEN RejectSet(messages[i]) ELSE messages[i]]
    /\ resp' = Reply("reject", 200, "OK")
    /\ UNCHANGED <<now, proximity, elsewhere>>

\* The literals DELETE /api/users/me writes: 'deleted-user' is the id of no
\* user row; the placeholder text is one character here.
DeletedUser == "deleted-user"

AnonymizedContent == <<"#">>

\* The set({...}) of DELETE /api/users/me.
AnonymizeSet(m) ==
    [m EXCEPT !.senderId = DeletedUser, !.content = AnonymizedContent]

\* messages.sender_id references user.id: a table with these rows violates it.
SenderFkViolated_NotEnforced(rows) == FALSE

SenderFkViolated(rows) == \E i \in DOMAIN rows : rows[i].senderId \notin Users

\* DELETE /api/users/me by user u: one transaction whose only write is the
\* update of the messages u sent; the user row itself is not deleted.  An
\* update that violates the foreign key aborts the transaction.
DeleteAccount_Cascading(u, confirm) ==
    LET Kept(m) == m.senderId # u /\ m.recipientId # u
    IN  /\ UNCHANGED <<now, inflight, proximity, elsewhere>>
        /\ IF ~confirm
           THEN /\ resp' = Reply("delete", 400, "Validation")
                /\ UNCHANGED messages
           ELSE /\ messages' = SelectSeq(messages, Kept)
                /\ resp' = Reply("delete", 200, "OK")

DeleteAccount(u, confirm) ==
    LET updated == [i \in DOMAIN messages |->
                      IF messages[i].senderId = u
                      THEN AnonymizeSet(messages[i])
                      ELSE messages[i]]
    IN  /\ UNCHANGED <<now, inflight, proximity, elsewhere>>
        /\ IF ~confirm
           THEN /\ resp' = Reply("delete", 400, "Validation")
                /\ UNCHANGED messages
           ELSE IF SenderFkViolated(updated)
           THEN /\ resp' = Reply("delete", 500, "ServerError")
                /\ UNCHANGED messages
           ELSE /\ messages' = updated
                /\ resp' = Reply("delete", 200, "OK")

Next ==
    \/ Tick
    \/ /\ Len(messages) < MaxMsgs
       /\ \E u \in Users, content \in Contents, e \in EmailInputs,
             rid \in RecipientIdInputs, x \in ExpiresInInputs,
             su \in SingleUseInputs, t \in Tokens :
             CreateMessage(u, content, e, rid, x, su, t)
    \/ \E t \in Tokens : ResolveByToken(t)
    \/ \E u \in Users, t \in Tokens, a \in ActionInputs : RespondFind(u, t, a)
    \/ \E r \in BagToSet(inflight) : RespondUpdate(r)
    \/ \E u \in Users, id \in Ids : AcceptFind(u, id)
    \/ \E r \in BagToSet(inflight) : AcceptUpdate(r)
    \/ \E u \in Users, id \in Ids : RejectFind(u, id)
    \/ \E r \in BagToSet(inflight) : RejectUpdate(r)
    \/ \E u \in Users, confirm \in BOOLEAN : DeleteAccount(u, confirm)

Spec == Init /\ [][Next]_vars

\* The link flow alone: messages are answered only through their link token.
NextLink ==
    \/ Tick
    \/ /\ Len(messages) < MaxMsgs
       /\ \E u \in Users, content \in Contents, e \in EmailInputs,
             rid \in RecipientIdInputs, x \in ExpiresInInputs,
             su \in SingleUseInputs, t \in Tokens :
             CreateMessage(u, content, e, rid, x, su, t)
    \/ \E t \in Tokens : ResolveByToken(t)
    \/ \E u \in Users, t \in Tokens, a \in ActionInputs : RespondFind(u, t, a)
    \/ \E r \in BagToSet(inflight) : RespondUpdate(r)

SpecLink == Init /\ [][NextLink]_vars

\* One request at a time: a handler starts only when none is in flight, so
\* every behaviour is a plain sequence of whole requests.
Quiet == inflight = EmptyBag

NextSeq ==
    \/ Quiet /\ Tick
    \/ /\ Quiet
       /\ Len(messages) < MaxMsgs
       /\ \E u \in Users, content \in Contents, e \in EmailInputs,
             rid \in RecipientIdInputs, x \in ExpiresInInputs,
             su \in SingleUseInputs, t \in Tokens :
             CreateMessage(u, content, e, rid, x, su, t)
    \/ Quiet /\ \E t \in Tokens : ResolveByToken(t)
    \/ Quiet /\ \E u \in Users, t \in Tokens, a \in ActionInputs :
                   RespondFind(u, t, a)
    \/ \E r \in BagToSet(inflight) : RespondUpdate(r)
    \/ Quiet /\ \E u \in Users, id \in Ids : AcceptFind(u, id)
    \/ \E r \in BagToSet(inflight) : AcceptUpdate(r)
    \/ Quiet /\ \E u \in Users, id \in Ids : RejectFind(u, id)
    \/ \E r \in BagToSet(inflight) : RejectUpdate(r)
    \/ Quiet /\ \E u \in Users, confirm \in BOOLEAN : DeleteAccount(u, confirm)

SpecSeq == Init /\ [][NextSeq]_vars

----------------------------------------------------------------------------
\* Proximity sessions (registerProximityRoutes).

\* Proximity tokens randomBytes(32).toString('hex') may return.
ProximityTokens == {"p1", "p2"}

\* 5 * 60 * 1000, the default expirationMs of a session.
DefaultSessionMs == 5 * 60 * 1000

\* A reply that carries a body.
ReplyWith(op, code, kind, body) ==
    [op |-> op, code |-> code, kind |-> kind, body |-> body]

\* The row POST /api/proximity/session inserts.
NewSession(u, expiresIn, token) ==
    [ initiatorId    |-> u,
      proximityToken |-> token,
      expiresAt      |-> now + (IF expiresIn = None \/ expiresIn[1] = 0
                                THEN DefaultSessionMs
                                ELSE expiresIn[1]),
      messageId      |-> None ]

\* The insert violates a constraint of the table: proximity_token is unique.
SessionInsertRejected(row) ==
    \E i \in DOMAIN sessions : sessions[i].proximityToken = row.proximityToken

\* POST /api/proximity/session by user u.
CreateProximitySession(u, expiresIn, token) ==
    LET row == NewSession(u, expiresIn, token)
    IN  /\ UNCHANGED <<now, messages, inflight, attaching, history, elsewhere>>
        /\ IF SessionInsertRejected(row)
           THEN /\ resp' = Reply("session", 500, "ServerError")
                /\ UNCHANGED sessions
           ELSE /\ sessions' = Append(sessions, row)
                /\ resp' = ReplyWith("session", 200, "OK",
                                     [sessionId |-> Len(sessions) + 1,
                                      proximityToken |-> token,
                                      expiresAt |-> row.expiresAt])

\* findFirst({ where: eq(proximitySessions.proximityToken, token) }): the id
\* of the row found, or None.
FindSession(token) ==
    IF \E i \in DOMAIN sessions : sessions[i].proximityToken = token
    THEN Some(CHOOSE i \in DOMAIN sessions : sessions[i].proximityToken = token)
    ELSE None

\* new Date() > proximitySession.expiresAt
SessionExpired_AtDeadline(s, t) == t >= s.expiresAt

SessionExpired(s, t) == t > s.expiresAt

\* GET /api/proximity/session/:token.
GetProximitySession(token) ==
    LET found == FindSession(token)
        sid == found[1]
    IN  /\ UNCHANGED <<now, messages, inflight, sessions, attaching, history,
                      elsewhere>>
        /\ IF found = None
           THEN resp' = Reply("session-info", 404, "NotFound")
           ELSE IF SessionExpired(sessions[sid], now)
           THEN resp' = Reply("session-info", 410, "Expired")
           ELSE resp' = ReplyWith("session-info", 200, "OK",
                                  [sessionId |-> sid,
                                   hasMessage |-> sessions[sid].messageId # None])

\* POST /api/proximity/session/:token/connect by user u.  A connect that
\* succeeds is logged with the caller; it writes no row.
Connect(u, token) ==
    LET found == FindSession(token)
        sid == found[1]
    IN  /\ UNCHANGED <<now, messages, inflight, sessions, attaching, elsewhere>>
        /\ IF found = None
           THEN /\ resp' = Reply("connect", 404, "NotFound")
                /\ UNCHANGED history
           ELSE IF SessionExpired(sessions[sid], now)
           THEN /\ resp' = Reply("connect", 410, "Expired")
                /\ UNCHANGED history
           ELSE IF sessions[sid].initiatorId = u
           THEN /\ resp' = Reply("connect", 400, "Validation")
                /\ UNCHANGED history
           ELSE /\ resp' = ReplyWith("connect", 200, "OK",
                              [sessionId |-> sid,
                               initiatorId |-> sessions[sid].initiatorId,
                               hasMessage |-> sessions[sid].messageId # None])
                /\ history' = [history EXCEPT
                                  !.connected = @ \cup {<<sid, u>>}]

\* The row POST /api/proximity/session/:token/send inserts; the columns it
\* does not name take their defaults.
AttachedMessage_ToSelf(u, content) ==
    [ senderId      |-> u,
      recipientId   |-> u,
      content       |-> content,
      status        |-> "pending",
      linkToken     |-> NULL,
      linkExpiresAt |-> None,
      singleUse     |-> FALSE,
      linkUsed      |-> FALSE ]

AttachedMessage(u, content) ==
    [ senderId      |-> u,
      recipientId   |-> NULL,
      content       |-> content,
      status        |-> "pending",
      linkToken     |-> NULL,
      linkExpiresAt |-> None,
      singleUse     |-> FALSE,
      linkUsed      |-> FALSE ]

\* A send request that has passed its checks: the session it read, its caller
\* and content, and the id of the message it has inserted (None before).
Sending(sessionId, u, content, messageId) ==
    [sessionId |-> sessionId, senderId |-> u, content |-> content,
     messageId |-> messageId]

CanAttach == BagCardinality(attaching) < MaxAttaching

\* The checks of send on the session row it read, in the order of the code;
\* the answer of the first that fails, else the OK answer.
AttachCheck_NoInitiatorCheck(s, u, t) ==
    IF SessionExpired(s, t) THEN Reply("attach", 410, "Expired")
    ELSE IF s.messageId # None THEN Reply("attach", 400, "AlreadyAttached")
    ELSE Reply("attach", 200, "OK")

AttachCheck_Reattach(s, u, t) ==
    IF s.initiatorId # u THEN Reply("attach", 403, "Forbidden")
    ELSE IF SessionExpired(s, t) THEN Reply("attach", 410, "Expired")
    ELSE Reply("attach", 200, "OK")

AttachCheck(s, u, t) ==
    IF s.initiatorId # u THEN Reply("attach", 403, "Forbidden")
    ELSE IF SessionExpired(s, t) THEN Reply("attach", 410, "Expired")
    ELSE IF s.messageId # None THEN Reply("attach", 400, "AlreadyAttached")
    ELSE Reply("attach", 200, "OK")

\* POST /api/proximity/session/:token/send by user u, up to its findFirst and
\* checks.
AttachMessageFind(u, token, content) ==
    LET found == FindSession(token)
        sid == found[1]
    IN  /\ UNCHANGED <<now, messages, inflight, sessions, history, elsewhere>>
        /\ IF ContentMissing(content)
           THEN /\ resp' = Reply("attach", 400, "Validation")
                /\ UNCHANGED attaching
           ELSE IF found = None
           THEN /\ resp' = Reply("attach", 404, "NotFound")
                /\ UNCHANGED attaching
           ELSE IF AttachCheck(sessions[sid], u, now).code # 200
           THEN /\ resp' = AttachCheck(sessions[sid], u, now)
                /\ UNCHANGED attaching
           ELSE /\ CanAttach
                /\ attaching' = attaching (+)
                      SetToBag({Sending(sid, u, content, None)})
                /\ UNCHANGED resp

\* send, its insert(schema.messages).
AttachMessageInsert(r) ==
    /\ BagIn(r, attaching)
    /\ r.messageId = None
    /\ messages' = Append(messages, AttachedMessage(r.senderId, r.content))
    /\ attaching' = (attaching (-) SetToBag({r}))
                       (+) SetToBag({[r EXCEPT !.messageId =
                                                  Some(Len(messages) + 1)]})
    /\ UNCHANGED <<now, inflight, resp, sessions, history, elsewhere>>

\* send, its update(schema.proximitySessions) ... where id = the session read.
AttachMessageUpdate(r) ==
    /\ BagIn(r, attaching)
    /\ r.messageId # None
    /\ attaching' = attaching (-) SetToBag({r})
    /\ sessions' = [sessions EXCEPT ![r.sessionId].messageId = r.messageId]
    /\ resp' = ReplyWith("attach", 200, "OK",
                         [messageId |-> r.messageId[1],
                          sessionId |-> r.sessionId])
    /\ UNCHANGED <<now, messages, inflight, history, elsewhere>>

\* GET /api/proximity/session/:token/message: the session row, then the
\* message row it points to.
FetchSessionMessage_NoExpiry(token) ==
    LET found == FindSession(token)
        sid == found[1]
        mid == sessions[sid].messageId
    IN  /\ UNCHANGED <<now, messages, inflight, sessions, attaching, elsewhere>>
        /\ UNCHANGED history
        /\ IF found = None
           THEN resp' = Reply("fetch", 404, "NotFound")
           ELSE IF mid = None
           THEN resp' = Reply("fetch", 404, "NotFound")
           ELSE resp' = ReplyWith("fetch", 200, "OK",
                           [id |-> mid[1], message |-> messages[mid[1]]])

FetchSessionMessage(token) ==
    LET found == FindSession(token)
        sid == found[1]
        mid == sessions[sid].messageId
    IN  /\ UNCHANGED <<now, messages, inflight, sessions, attaching, elsewhere>>
        /\ IF found = None
           THEN /\ resp' = Reply("fetch", 404, "NotFound")
                /\ UNCHANGED history
           ELSE IF SessionExpired(sessions[sid], now)
           THEN /\ resp' = Reply("fetch", 410, "Expired")
                /\ UNCHANGED history
           ELSE IF mid = None
           THEN /\ resp' = Reply("fetch", 404, "NotFound")
                /\ UNCHANGED history
           ELSE IF FindById(mid[1]) = None
           THEN /\ resp' = Reply("fetch", 404, "NotFound")
                /\ UNCHANGED history
           ELSE /\ resp' = ReplyWith("fetch", 200, "OK",
                              [id |-> mid[1], message |-> messages[mid[1]]])
                /\ history' =
                      IF \E c \in history.connected : c[1] = sid
                      THEN [history EXCEPT !.retrieved = @ \cup {sid}]
                      ELSE history

\* Ids of the messages a session flow can hold.
ProximityIds == 1 .. MaxSessions * MaxAttaching

\* The proximity routes, requests interleaved.
NextProx ==
    \/ Tick
    \/ /\ Len(sessions) < MaxSessions
       /\ \E u \in Users, x \in ExpiresInInputs, t \in ProximityTokens :
             CreateProximitySession(u, x, t)
    \/ \E t \in ProximityTokens : GetProximitySession(t)
    \/ \E u \in Users, t \in ProximityTokens : Connect(u, t)
    \/ \E u \in Users, t \in ProximityTokens, content \in Contents :
          AttachMessageFind(u, t, content)
    \/ \E r \in BagToSet(attaching) : AttachMessageInsert(r)
    \/ \E r \in BagToSet(attaching) : AttachMessageUpdate(r)
    \/ \E t \in ProximityTokens : FetchSessionMessage(t)

SpecProx == Init /\ [][NextProx]_vars

\* The proximity routes, the answers by id to the messages they create and
\* the account deletion, one request at a time.
Idle == inflight = EmptyBag /\ attaching = EmptyBag

NextProxSeq ==
    \/ Idle /\ Tick
    \/ /\ Idle
       /\ Len(sessions) < MaxSessions
       /\ \E u \in Users, x \in ExpiresInInputs, t \in ProximityTokens :
             CreateProximitySession(u, x, t)
    \/ Idle /\ \E t \in ProximityTokens : GetProximitySession(t)
    \/ Idle /\ \E u \in Users, t \in ProximityTokens : Connect(u, t)
    \/ Idle /\ \E u \in Users, t \in ProximityTokens, content \in Contents :
                  AttachMessageFind(u, t, content)
    \/ \E r \in BagToSet(attaching) : AttachMessageInsert(r)
    \/ \E r \in BagToSet(attaching) : AttachMessageUpdate(r)
    \/ Idle /\ \E t \in ProximityTokens : FetchSessionMessage(t)
    \/ Idle /\ \E u \in Users, id \in ProximityIds : AcceptFind(u, id)
    \/ \E r \in BagToSet(inflight) : AcceptUpdate(r)
    \/ Idle /\ \E u \in Users, id \in ProximityIds : RejectFind(u, id)
    \/ \E r \in BagToSet(inflight) : RejectUpdate(r)
    \/ Idle /\ \E u \in Users, confirm \in BOOLEAN : DeleteAccount(u, confirm)

SpecProxSeq == Init /\ [][NextProxSeq]_vars

\* Every route that writes a message, one request at a time: messages come
\* from POST /api/messages (open, default expiry, single-use) and from send,
\* and are answered by token or by id.  No expiry is within reach of the
\* clock here, so the clock stands still.
RowIds == 1 .. MaxRows

NextAllSeq ==
    \/ /\ Idle
       /\ Len(messages) < MaxRows
       /\ \E u \in Users, content \in Contents, t \in Tokens :
             CreateMessage(u, content, NULL, NULL, None, None, t)
    \/ Idle /\ \E t \in Tokens : ResolveByToken(t)
    \/ Idle /\ \E u \in Users, t \in Tokens, a \in ActionInputs :
                  RespondFind(u, t, a)
    \/ \E r \in BagToSet(inflight) : RespondUpdate(r)
    \/ Idle /\ \E u \in Users, id \in RowIds : AcceptFind(u, id)
    \/ \E r \in BagToSet(inflight) : AcceptUpdate(r)
    \/ Idle /\ \E u \in Users, id \in RowIds : RejectFind(u, id)
    \/ \E r \in BagToSet(inflight) : RejectUpdate(r)
    \/ Idle /\ \E u \in Users, confirm \in BOOLEAN : DeleteAccount(u, confirm)
    \/ /\ Idle
       /\ Len(sessions) < MaxSessions
       /\ \E u \in Users, t \in ProximityTokens :
             CreateProximitySession(u, None, t)
    \/ /\ Idle
       /\ Len(messages) < MaxRows
       /\ \E u \in Users, t \in ProximityTokens, content \in Contents :
             AttachMessageFind(u, t, content)
    \/ \E r \in BagToSet(attaching) : AttachMessageInsert(r)
    \/ \E r \in BagToSet(attaching) : AttachMessageUpdate(r)

SpecAllSeq == Init /\ [][NextAllSeq]_vars

\* POST /api/messages alone, with every request body.
NextCreate ==
    \/ Tick
    \/ /\ Len(messages) < MaxRows
       /\ \E u \in Users, content \in Contents, e \in EmailInputs,
             rid \in RecipientIdInputs, x \in ExpiresInInputs,
             su \in SingleUseInputs, t \in Tokens :
             CreateMessage(u, content, e, rid, x, su, t)

SpecCreate == Init /\ [][NextCreate]_vars

\* The three inserts that fill the two tables, each with the plainest valid
\* body, requests interleaved: what varies is the token drawn.
NextTokens ==
    \/ /\ Len(messages) + BagCardinality(attaching) < MaxRows
       /\ \E u \in Users, t \in Tokens :
             CreateMessage(u, <<" ", "h">>, NULL, NULL, None, None, t)
    \/ /\ Len(sessions) < MaxRows
       /\ \E u \in Users, t \in ProximityTokens :
             CreateProximitySession(u, None, t)
    \/ /\ Len(messages) + BagCardinality(attaching) < MaxRows
       /\ \E u \in Users, t \in ProximityTokens :
             AttachMessageFind(u, t, <<" ", "h">>)
    \/ \E r \in BagToSet(attaching) : AttachMessageInsert(r)
    \/ \E r \in BagToSet(attaching) : AttachMessageUpdate(r)

SpecTokens == Init /\ [][NextTokens]_vars

\* The callers of the routes that store nothing about their caller: the
\* users of the model and one more authenticated user.
Callers == Users \cup {"u3"}

\* A session from its creation to its retrieval, one request at a time, with
\* the default lifetime.
NextConsume ==
    \/ Idle /\ Tick
    \/ /\ Idle
       /\ Len(sessions) < MaxSessions
       /\ \E u \in Users, t \in ProximityTokens :
             CreateProximitySession(u, None, t)
    \/ Idle /\ \E u \in Users, t \in ProximityTokens, content \in Contents :
                  AttachMessageFind(u, t, content)
    \/ \E r \in BagToSet(attaching) : AttachMessageInsert(r)
    \/ \E r \in BagToSet(attaching) : AttachMessageUpdate(r)
    \/ Idle /\ \E u \in Callers, t \in ProximityTokens : Connect(u, t)
    \/ Idle /\ \E t \in ProximityTokens : FetchSessionMessage(t)

SpecConsume == Init /\ [][NextConsume]_vars

----------------------------------------------------------------------------
\* Device connection requests (device-discovery.ts).  A row of connections
\* is a row of device_connections; its id is its index.  A deleted row stays
\* in the sequence with live = FALSE, so that ids are never reused.

MaxConnections == 2

\* target_user_id of a request body.
TargetUserIdInputs == {NULL, "ghost"} \cup Users

\* :id of a connection route: the ids of the table and one that is not there.
ConnectionIds == 1..(MaxConnections + 1)

\* The values({...}) of POST /api/connections/request.
NewConnection(u, target) ==
    [ requesterUserId |-> u,
      targetUserId    |-> target,
      status          |-> "pending",
      updatedAt       |-> now,
      live            |-> TRUE ]

\* findFirst where id = :id
FindConnection(id) ==
    IF id \in DOMAIN connections /\ connections[id].live
    THEN Some(connections[id]) ELSE None

\* findFirst where requesterUserId = u and targetUserId = target
ConnectionExists(u, target) ==
    \E i \in DOMAIN connections :
        /\ connections[i].live
        /\ connections[i].requesterUserId = u
        /\ connections[i].targetUserId = target

\* POST /api/connections/request by user u; located stands for the outcome
\* of the two reads of user_locations (both users have a location row).
RequestConnection(u, target, located) ==
    /\ UNCHANGED <<now, messages, inflight, proximity, resetTokens, pushTokens>>
    /\ IF target = NULL \/ target = u
       THEN /\ resp' = Reply("conn-request", 400, "Validation")
            /\ UNCHANGED connections
       ELSE IF target \notin Users
       THEN /\ resp' = Reply("conn-request", 404, "NotFound")
            /\ UNCHANGED connections
       ELSE IF ConnectionExists(u, target)
       THEN /\ resp' = Reply("conn-request", 409, "Exists")
            /\ UNCHANGED connections
       ELSE IF ~located
       THEN /\ resp' = Reply("conn-request", 400, "NoLocation")
            /\ UNCHANGED connections
       ELSE /\ connections' = Append(connections, NewConnection(u, target))
            /\ resp' = Reply("conn-request", 200, "OK")

\* The checks of respond on the row it read, in the order of the code.
ConnectionCheck_AnyStatus(c, u) ==
    IF c.targetUserId # u THEN Reply("conn-respond", 403, "Forbidden")
    ELSE Reply("conn-respond", 200, "OK")

ConnectionCheck(c, u) ==
    IF c.targetUserId # u THEN Reply("conn-respond", 403, "Forbidden")
    ELSE IF c.status # "pending" THEN Reply("conn-respond", 409, "NotPending")
    ELSE Reply("conn-respond", 200, "OK")

\* POST /api/connections/:id/respond by user u, up to its findFirst and
\* checks.
RespondConnectionFind(u, id, action) ==
    LET found == FindConnection(id)
    IN  /\ UNCHANGED <<now, messages, proximity, elsewhere>>
        /\ IF action \notin {"accept", "reject"}
           THEN /\ resp' = Reply("conn-respond", 400, "Validation")
                /\ UNCHANGED inflight
           ELSE IF found = None
           THEN /\ resp' = Reply("conn-respond", 404, "NotFound")
                /\ UNCHANGED inflight
           ELSE IF ConnectionCheck(found[1], u).code # 200
           THEN /\ resp' = ConnectionCheck(found[1], u)
                /\ UNCHANGED inflight
           ELSE /\ CanStart
                /\ inflight' = inflight (+) SetToBag(
                      {Pending("conn-respond", NULL, id, NewStatus(action), u)})
                /\ UNCHANGED resp

\* respond, its update ... set {status, updatedAt} where id = :id, and the
\* read of the returned row: with no row left, updated is undefined and
\* updated.id throws.
RespondConnectionUpdate(r) ==
    /\ BagIn(r, inflight)
    /\ r.op = "conn-respond"
    /\ inflight' = inflight (-) SetToBag({r})
    /\ UNCHANGED <<now, messages, proximity, resetTokens, pushTokens>>
    /\ IF connections[r.id].live
       THEN /\ connections' = [connections EXCEPT
                                  ![r.id].status = r.status,
                                  ![r.id].updatedAt = now]
            /\ resp' = Reply("conn-respond", 200, "OK")
       ELSE /\ resp' = Reply("conn-respond", 500, "ServerError")
            /\ UNCHANGED connections

\* DELETE /api/connections/:id by user u.
DeleteConnection(u, id) ==
    LET found == FindConnection(id)
    IN  /\ UNCHANGED <<now, messages, inflight, proximity, resetTokens,
                       pushTokens>>
        /\ IF found = None
           THEN /\ resp' = Reply("conn-delete", 404, "NotFound")
                /\ UNCHANGED connections
           ELSE IF found[1].requesterUserId # u /\ found[1].targetUserId # u
           THEN /\ resp' = Reply("conn-delete", 403, "Forbidden")
                /\ UNCHANGED connections
           ELSE /\ connections' = [connections EXCEPT ![id].live = FALSE]
                /\ resp' = Reply("conn-delete", 200, "OK")

\* The connection routes with their requests interleaved.
NextConn ==
    \/ Tick
    \/ /\ Len(connections) < MaxConnections
       /\ \E u \in Users, target \in TargetUserIdInputs, located \in BOOLEAN :
             RequestConnection(u, target, located)
    \/ \E u \in Callers, id \in ConnectionIds, action \in ActionInputs :
          RespondConnectionFind(u, id, action)
    \/ \E r \in BagToSet(inflight) : RespondConnectionUpdate(r)
    \/ \E u \in Callers, id \in ConnectionIds : DeleteConnection(u, id)

SpecConn == Init /\ [][NextConn]_vars

\* The connection routes, one request at a time.
NextConnSeq ==
    \/ Idle /\ Tick
    \/ /\ Idle
       /\ Len(connections) < MaxConnections
       /\ \E u \in Users, target \in TargetUserIdInputs, located \in BOOLEAN :
             RequestConnection(u, target, located)
    \/ Idle /\ \E u \in Callers, id \in ConnectionIds, action \in ActionInputs :
                  RespondConnectionFind(u, id, action)
    \/ \E r \in BagToSet(inflight) : RespondConnectionUpdate(r)
    \/ Idle /\ \E u \in Callers, id \in ConnectionIds : DeleteConnection(u, id)

SpecConnSeq == Init /\ [][NextConnSeq]_vars

----------------------------------------------------------------------------
\* Password reset tokens (the password recovery routes).  A row of
\* resetTokens is a row of password_reset_tokens; its id is its index, and a
\* deleted row stays in the sequence with live = FALSE.

MaxResetTokens == 2

\* 60 * 60 * 1000, the lifetime of a reset token.
ResetLifetimeMs == 60 * 60 * 1000

\* Values randomBytes(32).toString('hex') may return for a reset token.
ResetTokenValues == {"r1", "r2"}

\* token of a reset body or path (NULL: omitted).
ResetTokenInputs == {NULL} \cup ResetTokenValues

\* email of a forgot-password body; "x" has no '@'.
ForgotEmailInputs == {NULL, "x", "x@", "u1@", "u2@"}

\* !email || !email.includes('@')
EmailInvalid(email) == email \in {NULL, "x"}

\* The length of newPassword of a reset body (0: omitted or empty).
PasswordLengths == {0, 7, 8}

\* The clock moves on by the lifetime of a reset token.
HourPasses ==
    /\ now <= MaxTime
    /\ now' = now + ResetLifetimeMs
    /\ UNCHANGED <<messages, inflight, resp, proximity, elsewhere>>

\* The values({...}) of POST /api/auth/forgot-password.
NewResetToken(u, token) ==
    [ userId    |-> u,
      token     |-> token,
      expiresAt |-> now + ResetLifetimeMs,
      usedAt    |-> None,
      live      |-> TRUE ]

\* The insert violates a constraint of the table: token is unique.
ResetInsertRejected(row) ==
    \E i \in DOMAIN resetTokens :
        resetTokens[i].live /\ resetTokens[i].token = row.token

\* POST /api/auth/forgot-password; token is the value drawn.
ForgotPassword(email, token) ==
    LET owners == {u \in Users : EmailOf(u) = email}
        row == NewResetToken(CHOOSE u \in owners : TRUE, token)
    IN  /\ UNCHANGED <<now, messages, inflight, proximity, connections,
                       pushTokens>>
        /\ IF EmailInvalid(email)
           THEN /\ resp' = Reply("forgot", 400, "Validation")
                /\ UNCHANGED resetTokens
           ELSE IF owners = {}
           THEN /\ resp' = Reply("forgot", 200, "OK")
                /\ UNCHANGED resetTokens
           ELSE IF ResetInsertRejected(row)
           THEN /\ resp' = Reply("forgot", 500, "ServerError")
                /\ UNCHANGED resetTokens
           ELSE /\ resetTokens' = Append(resetTokens, row)
                /\ resp' = Reply("forgot", 200, "OK")

\* findFirst where token = :token and used_at is null: its index, if any.
FindResetToken(token) ==
    LET hits == {i \in DOMAIN resetTokens :
                    /\ resetTokens[i].live
                    /\ resetTokens[i].token = token
                    /\ resetTokens[i].usedAt = None}
    IN  IF hits = {} THEN None ELSE Some(CHOOSE i \in hits : TRUE)

\* new Date() > resetToken.expiresAt, at time t.
ResetExpired(row, t) == t > row.expiresAt

\* POST /api/auth/reset-password, up to its findFirst and checks.  The user
\* of a stored token always exists, so its 404 does not arise.
ResetPasswordFind(token, pwLen) ==
    LET found == FindResetToken(token)
    IN  /\ UNCHANGED <<now, messages, proximity, elsewhere>>
        /\ IF token = NULL \/ pwLen = 0 \/ pwLen < 8
           THEN /\ resp' = Reply("reset", 400, "Validation")
                /\ UNCHANGED inflight
           ELSE IF found = None
           THEN /\ resp' = Reply("reset", 400, "Invalid")
                /\ UNCHANGED inflight
           ELSE IF ResetExpired(resetTokens[found[1]], now)
           THEN /\ resp' = Reply("reset", 410, "Expired")
                /\ UNCHANGED inflight
           ELSE /\ CanStart
                /\ inflight' = inflight (+) SetToBag(
                      {Pending("reset", token, found[1], NULL, NULL)})
                /\ UNCHANGED resp

\* reset-password, its update set {usedAt} where id = the row read.
ResetPasswordUpdate(r) ==
    /\ BagIn(r, inflight)
    /\ r.op = "reset"
    /\ inflight' = inflight (-) SetToBag({r})
    /\ resetTokens' = [i \in DOMAIN resetTokens |->
                         IF i = r.id /\ resetTokens[i].live
                         THEN [resetTokens[i] EXCEPT !.usedAt = Some(now)]
                         ELSE resetTokens[i]]
    /\ resp' = Reply("reset", 200, "OK")
    /\ UNCHANGED <<now, messages, proximity, connections, pushTokens>>

\* GET /api/auth/reset-password/:token
ValidateResetToken(token) ==
    LET found == FindResetToken(token)
    IN  /\ UNCHANGED <<now, messages, inflight, proximity, elsewhere>>
        /\ IF found = None
           THEN resp' = Reply("validate", 404, "NotFound")
           ELSE IF ResetExpired(resetTokens[found[1]], now)
           THEN resp' = Reply("validate", 410, "Expired")
           ELSE resp' = ReplyWith("validate", 200, "OK",
                           [email     |-> EmailOf(resetTokens[found[1]].userId),
                            expiresAt |-> resetTokens[found[1]].expiresAt])

\* DELETE /api/auth/reset-tokens: delete where expires_at < now and used_at
\* is null.
CleanupResetTokens ==
    /\ resetTokens' = [i \in DOMAIN resetTokens |->
                         IF /\ resetTokens[i].expiresAt < now
                            /\ resetTokens[i].usedAt = None
                         THEN [resetTokens[i] EXCEPT !.live = FALSE]
                         ELSE resetTokens[i]]
    /\ resp' = Reply("cleanup", 200, "OK")
    /\ UNCHANGED <<now, messages, inflight, proximity, connections, pushTokens>>

\* The password recovery routes with their requests interleaved.
NextReset ==
    \/ Tick
    \/ HourPasses
    \/ /\ Len(resetTokens) < MaxResetTokens
       /\ \E email \in ForgotEmailInputs, token \in ResetTokenValues :
             ForgotPassword(email, token)
    \/ \E token \in ResetTokenInputs, pwLen \in PasswordLengths :
          ResetPasswordFind(token, pwLen)
    \/ \E r \in BagToSet(inflight) : ResetPasswordUpdate(r)
    \/ \E token \in ResetTokenValues : ValidateResetToken(token)
    \/ CleanupResetTokens

SpecReset == Init /\ [][NextReset]_vars

\* The password recovery routes, one request at a time.
NextResetSeq ==
    \/ Idle /\ Tick
    \/ Idle /\ HourPasses
    \/ /\ Idle
       /\ Len(resetTokens) < MaxResetTokens
       /\ \E email \in ForgotEmailInputs, token \in ResetTokenValues :
             ForgotPassword(email, token)
    \/ Idle /\ \E token \in ResetTokenInputs, pwLen \in PasswordLengths :
                  ResetPasswordFind(token, pwLen)
    \/ \E r \in BagToSet(inflight) : ResetPasswordUpdate(r)
    \/ Idle /\ \E token \in ResetTokenValues : ValidateResetToken(token)
    \/ Idle /\ CleanupResetTokens

SpecResetSeq == Init /\ [][NextResetSeq]_vars

----------------------------------------------------------------------------
\* Push tokens (push-tokens.ts).  A row of pushTokens is a row of
\* push_tokens; its id is its index, and a deleted row stays in the sequence
\* with live = FALSE.  The table has no unique constraint on token.

MaxPushTokens == 2

\* token of a registration body (NULL: omitted; " ": blank).
PushTokenInputs == {NULL, " ", "d1", "d2"}

\* platform of a registration body.
PlatformInputs == {"ios", "android", "web"}

\* :id of DELETE /api/push-tokens/:id.
PushTokenIds == 1..(MaxPushTokens + 1)

\* !token || token.trim().length === 0
PushTokenMissing(token) == token \in {NULL, " "}

\* The stored rows whose token is the given one.
PushRowsOf(token) ==
    {i \in DOMAIN pushTokens : pushTokens[i].live /\ pushTokens[i].token = token}

\* The values({...}) of POST /api/push-tokens.
NewPushToken(u, token, platform) ==
    [ userId    |-> u,
      token     |-> token,
      platform  |-> platform,
      updatedAt |-> now,
      live      |-> TRUE ]

\* POST /api/push-tokens by user u, up to its findFirst: the request goes on
\* to touch its own row, to reassign another user's row, or to insert.
\* findFirst returns any of the rows that match.
RegisterPushTokenFind(u, token, platform) ==
    /\ UNCHANGED <<now, messages, proximity, elsewhere>>
    /\ IF PushTokenMissing(token) \/ platform \notin {"ios", "android"}
       THEN /\ resp' = Reply("push", 400, "Validation")
            /\ UNCHANGED inflight
       ELSE /\ CanStart
            /\ UNCHANGED resp
            /\ IF PushRowsOf(token) = {}
               THEN inflight' = inflight (+) SetToBag(
                       {Pending("push-insert", token, 0, platform, u)})
               ELSE \E i \in PushRowsOf(token) :
                       inflight' = inflight (+) SetToBag(
                          {Pending(IF pushTokens[i].userId = u
                                   THEN "push-touch" ELSE "push-reassign",
                                   token, i, platform, u)})

\* POST /api/push-tokens, its write: the update of the row read, whose
\* returned row is then read (with no row left that read throws), or the
\* insert.
RegisterPushTokenWrite(r) ==
    /\ BagIn(r, inflight)
    /\ r.op \in {"push-insert", "push-touch", "push-reassign"}
    /\ inflight' = inflight (-) SetToBag({r})
    /\ UNCHANGED <<now, messages, proximity, connections, resetTokens>>
    /\ IF r.op = "push-insert"
       THEN /\ pushTokens' = Append(pushTokens,
                                NewPushToken(r.recipientId, r.token, r.status))
            /\ resp' = Reply("push", 200, "OK")
       ELSE IF ~pushTokens[r.id].live
       THEN /\ resp' = Reply("push", 500, "ServerError")
            /\ UNCHANGED pushTokens
       ELSE IF r.op = "push-touch"
       THEN /\ pushTokens' = [pushTokens EXCEPT ![r.id].updatedAt = now]
            /\ resp' = Reply("push", 200, "OK")
       ELSE /\ pushTokens' = [pushTokens EXCEPT
                                 ![r.id].userId = r.recipientId,
                                 ![r.id].platform = r.status,
                                 ![r.id].updatedAt = now]
            /\ resp' = Reply("push", 200, "OK")

\* DELETE /api/push-tokens/:id by user u.
DeletePushToken(u, id) ==
    /\ UNCHANGED <<now, messages, inflight, proximity, connections, resetTokens>>
    /\ IF ~(id \in DOMAIN pushTokens /\ pushTokens[id].live)
       THEN /\ resp' = Reply("push-delete", 404, "NotFound")
            /\ UNCHANGED pushTokens
       ELSE IF pushTokens[id].userId # u
       THEN /\ resp' = Reply("push-delete", 403, "Forbidden")
            /\ UNCHANGED pushTokens
       ELSE /\ pushTokens' = [pushTokens EXCEPT ![id].live = FALSE]
            /\ resp' = Reply("push-delete", 200, "OK")

\* The push-token routes with their requests interleaved.
NextPush ==
    \/ Tick
    \/ /\ Len(pushTokens) + BagCardinality(inflight) < MaxPushTokens
       /\ \E u \in Users, token \in PushTokenInputs, platform \in PlatformInputs :
             RegisterPushTokenFind(u, token, platform)
    \/ \E r \in BagToSet(inflight) : RegisterPushTokenWrite(r)
    \/ \E u \in Users, id \in PushTokenIds : DeletePushToken(u, id)

SpecPush == Init /\ [][NextPush]_vars

\* The push-token routes, one request at a time.
NextPushSeq ==
    \/ Idle /\ Tick
    \/ /\ Idle
       /\ Len(pushTokens) < MaxPushTokens
       /\ \E u \in Users, token \in PushTokenInputs, platform \in PlatformInputs :
             RegisterPushTokenFind(u, token, platform)
    \/ \E r \in BagToSet(inflight) : RegisterPushTokenWrite(r)
    \/ Idle /\ \E u \in Users, id \in PushTokenIds : DeletePushToken(u, id)

SpecPushSeq == Init /\ [][NextPushSeq]_vars

----------------------------------------------------------------------------
\* Vocabulary of the properties.

Terminal(m) == m.status \in {"accepted", "rejected"}

\* Rows whose link token is t.
RowsOf(t) == {i \in DOMAIN messages : messages[i].linkToken = t}

\* now > linkExpiresAt, for a row that has a linkExpiresAt.
PastExpiry(m) == m.linkExpiresAt # None /\ now > m.linkExpiresAt[1]

ValidActions == {"accept", "reject"}

\* The handler step turned its request away: it left nothing to be written.
TurnedAway == inflight' = inflight /\ messages' = messages

----------------------------------------------------------------------------
\* C1: a message's status only moves pending -> accepted or pending ->
\* rejected; once it is accepted or rejected no step changes it.
C1_StatusLeavesOnlyPending ==
    [][\A i \in DOMAIN messages :
          Terminal(messages[i]) => messages'[i].status = messages[i].status]_vars

\* C2: of the respond requests racing on one pending single-use message only
\* one succeeds: an update that arrives when the single-use link is already
\* used reports no success and overwrites nothing.
C2_OneRespondWins ==
    [][\A r \in BagToSet(inflight) :
          (/\ RespondUpdate(r)
           /\ \E i \in RowsOf(r.token) :
                 messages[i].singleUse /\ messages[i].linkUsed)
          => (resp'.kind # "OK" /\ messages' = messages)]_vars

\* C3: a respond issued once a terminal status is recorded is turned away and
\* leaves the status as it is; on a link that is neither single-use nor
\* expired it is answered 409 Conflict.
C3_SecondRespondConflicts ==
    [][\A u \in Users, t \in Tokens, a \in ValidActions :
          \A i \in RowsOf(t) :
             (RespondFind(u, t, a) /\ Terminal(messages[i]))
             => /\ TurnedAway
                /\ (~messages[i].singleUse /\ ~PastExpiry(messages[i]))
                      => resp'.code = 409]_vars

\* C4: once a respond has succeeded on a single-use link that has not
\* expired, the link stays used, every later resolveByToken and every later
\* respond on its token is answered 410 AlreadyUsed, and that respond changes
\* no row and leaves nothing to be written.
C4_UsedLinkStaysUsed ==
    [][/\ \A r \in BagToSet(inflight) :
             (RespondUpdate(r) /\ resp'.kind = "OK")
             => \A i \in RowsOf(r.token) : messages'[i].linkUsed
       /\ \A i \in DOMAIN messages :
             messages[i].linkUsed => messages'[i].linkUsed
       /\ \A t \in Tokens :
             \A i \in RowsOf(t) :
                (messages[i].singleUse /\ messages[i].linkUsed
                    /\ ~PastExpiry(messages[i]))
                => /\ ResolveByToken(t)
                         => resp' = Reply("resolve", 410, "AlreadyUsed")
                   /\ \A u \in Users, a \in ValidActions :
                         RespondFind(u, t, a)
                         => (resp' = Reply("respond", 410, "AlreadyUsed")
                             /\ TurnedAway)]_vars

\* A later respond on a used single-use link has just been answered
\* AlreadyUsed: the link was used by a respond that bound a recipient.
C4_Witness ==
    /\ resp = Reply("respond", 410, "AlreadyUsed")
    /\ inflight = EmptyBag
    /\ \E i \in DOMAIN messages :
          /\ messages[i].singleUse /\ messages[i].linkUsed
          /\ Terminal(messages[i]) /\ messages[i].recipientId # NULL
          /\ ~PastExpiry(messages[i])

\* C5: when now > linkExpiresAt, resolveByToken and respond on the token are
\* both answered 410 Expired, whatever linkUsed, singleUse and status are, and
\* the respond changes no row and leaves nothing to be written.
C5_ExpiredWins ==
    [][\A t \in Tokens :
          \A i \in RowsOf(t) :
             PastExpiry(messages[i])
             => /\ ResolveByToken(t) => resp' = Reply("resolve", 410, "Expired")
                /\ \A u \in Users, a \in ValidActions :
                      RespondFind(u, t, a)
                      => (resp' = Reply("respond", 410, "Expired")
                          /\ TurnedAway)]_vars

\* A respond on a link that is both expired and used has just been answered
\* Expired.
C5_Witness ==
    /\ resp = Reply("respond", 410, "Expired")
    /\ \E i \in DOMAIN messages :
          /\ PastExpiry(messages[i])
          /\ messages[i].singleUse /\ messages[i].linkUsed
          /\ Terminal(messages[i])

\* C6: on a message addressed at creation (still pending, link usable), a
\* respond by anyone but the recipient is answered 403 Forbidden and leaves
\* the row as it is; a respond by the recipient goes through.
C6_OnlyRecipientResponds ==
    [][\A u \in Users, t \in Tokens, a \in ValidActions :
          \A i \in RowsOf(t) :
             (/\ RespondFind(u, t, a)
              /\ messages[i].status = "pending"
              /\ messages[i].recipientId # NULL
              /\ LinkCheck(messages[i], now) = "OK")
             => IF messages[i].recipientId = u
                THEN inflight' # inflight
                ELSE resp'.code = 403 /\ TurnedAway]_vars

\* C7: the update that answers an open message (recipientId = null) binds
\* the responder as recipientId together with the terminal status, and once
\* a recipient is bound a request by any other user is turned away.
C7_FirstResponderOwns ==
    [][/\ \A i \in DOMAIN messages :
             (messages[i].status = "pending" /\ Terminal(messages'[i]))
             => messages'[i].recipientId # NULL
       /\ \A u \in Users :
             \A i \in DOMAIN messages :
                (Terminal(messages[i]) /\ NotRecipient(messages[i], u))
                => /\ \A a \in ValidActions :
                         RespondFind(u, messages[i].linkToken, a) => TurnedAway
                   /\ AcceptFind(u, i) => TurnedAway
                   /\ RejectFind(u, i) => TurnedAway]_vars

\* C8: every accepted or rejected message has linkUsed = true.
C8_AnsweredMeansUsed ==
    \A i \in DOMAIN messages : Terminal(messages[i]) => messages[i].linkUsed

\* C9: resolveByToken changes nothing but its answer, whatever it answers; a
\* link it has just shown is still unused and still passes the checks of a
\* respond.
C9_ResolveReadsOnly ==
    [][\A t \in Tokens :
          ResolveByToken(t)
          => /\ messages' = messages /\ inflight' = inflight /\ now' = now
             /\ resp'.kind = "OK"
                   => \A i \in RowsOf(t) :
                         /\ messages'[i].singleUse => ~messages'[i].linkUsed
                         /\ LinkCheck(messages'[i], now') = "OK"]_vars

\* A single-use link has just been shown: it is still unused and pending.
C9_Witness ==
    /\ resp = Reply("resolve", 200, "OK")
    /\ \E i \in DOMAIN messages :
          /\ messages[i].singleUse /\ ~messages[i].linkUsed
          /\ messages[i].status = "pending"

\* The answer respond owes on row m to user u: the first precondition that
\* fails, in the order Expired, AlreadyUsed, Conflict, Forbidden.
C10_Owed(m, u) ==
    IF PastExpiry(m) THEN "Expired"
    ELSE IF m.singleUse /\ m.linkUsed THEN "AlreadyUsed"
    ELSE IF m.status # "pending" THEN "Conflict"
    ELSE IF m.recipientId # NULL /\ m.recipientId # u THEN "Forbidden"
    ELSE "OK"

\* C10: respond reports the first precondition that fails, in the order
\* NotFound, Expired, AlreadyUsed, Conflict, Forbidden.
C10_FirstFailureWins ==
    [][\A u \in Users, t \in Tokens, a \in ValidActions :
          RespondFind(u, t, a)
          => IF RowsOf(t) = {}
             THEN resp'.kind = "NotFound"
             ELSE \A i \in RowsOf(t) :
                     IF C10_Owed(messages[i], u) = "OK"
                     THEN inflight' # inflight
                     ELSE resp'.kind = C10_Owed(messages[i], u) /\ TurnedAway]_vars

\* C11: accept and reject by id on a message whose linkExpiresAt has passed
\* are answered 410 Expired and leave nothing to be written, and no step
\* changes the status of a message whose linkExpiresAt has passed.
C11_NoAnswerAfterExpiry ==
    [][\A i \in DOMAIN messages :
          PastExpiry(messages[i])
          => /\ \A u \in Users :
                   (AcceptFind(u, i) \/ RejectFind(u, i))
                   => (resp'.code = 410 /\ resp'.kind = "Expired" /\ TurnedAway)
             /\ messages'[i].status = messages[i].status]_vars

\* C12: no step changes the linkToken or the linkExpiresAt of an existing
\* message and the clock never goes back, so a link that is past its expiry
\* stays past it; a resolveByToken or respond answered Expired found the link
\* past its expiry, and on such a link every resolveByToken and every respond
\* is answered Expired.
C12_ExpiryIsPermanent ==
    [][/\ now' >= now
       /\ \A i \in DOMAIN messages :
             /\ i \in DOMAIN messages'
             /\ messages'[i].linkToken = messages[i].linkToken
             /\ messages'[i].linkExpiresAt = messages[i].linkExpiresAt
             /\ PastExpiry(messages[i])
                   => now' > messages'[i].linkExpiresAt[1]
       /\ \A t \in Tokens :
             /\ (resp'.kind = "Expired"
                   /\ (ResolveByToken(t)
                       \/ \E u \in Users, a \in ValidActions :
                             RespondFind(u, t, a)))
                => \E i \in RowsOf(t) : PastExpiry(messages[i])
             /\ (\E i \in RowsOf(t) : PastExpiry(messages[i]))
                => /\ ResolveByToken(t) => resp'.kind = "Expired"
                   /\ \A u \in Users, a \in ValidActions :
                         RespondFind(u, t, a) => resp'.kind = "Expired"]_vars

\* A link that was already past its expiry one clock step ago has just been
\* answered Expired again.
C12_Witness ==
    /\ resp.kind = "Expired"
    /\ \E i \in DOMAIN messages :
          /\ messages[i].linkExpiresAt # None
          /\ now > messages[i].linkExpiresAt[1] + 1

C14_CreateAllocatesOne ==
    [][\A u \in Users, content \in Contents, e \in EmailInputs,
          rid \in RecipientIdInputs, x \in ExpiresInInputs,
          su \in SingleUseInputs, t \in Tokens :
          (/\ CreateMessage(u, content, e, rid, x, su, t)
           /\ ~ContentMissing(content)
           /\ resp'.kind = "OK")
          => /\ Len(messages') = Len(messages) + 1
             /\ \A i \in DOMAIN messages : messages'[i] = messages[i]
             /\ LET m == messages'[Len(messages) + 1]
                IN  /\ m.status = "pending"
                    /\ ~m.linkUsed
                    /\ m.linkToken # NULL
                    /\ m.linkExpiresAt =
                          Some(now + (IF x = None THEN DefaultExpirationMs
                                      ELSE x[1]))
                    /\ m.singleUse = (IF su = None THEN TRUE ELSE su[1])]_vars

\* A recipientEmail or recipientId names somebody, and nobody is known by it.
UnknownRecipient(e, rid) ==
    IF e # NULL
    THEN \A r \in Users : EmailOf(r) # e
    ELSE rid # NULL /\ rid \notin Users

\* C15: a create with empty or whitespace-only content is answered 400
\* Validation, a create whose recipientEmail or recipientId resolves to no
\* user is answered 404 NotFound, neither adds or changes a row, and every
\* stored non-null recipientId is the id of a user.
C15_CreateRejections ==
    [][/\ \A u \in Users, content \in Contents, e \in EmailInputs,
             rid \in RecipientIdInputs, x \in ExpiresInInputs,
             su \in SingleUseInputs, t \in Tokens :
             CreateMessage(u, content, e, rid, x, su, t)
             => /\ ContentMissing(content)
                   => (resp' = Reply("create", 400, "Validation")
                       /\ messages' = messages)
                /\ (~ContentMissing(content) /\ UnknownRecipient(e, rid))
                   => (resp' = Reply("create", 404, "NotFound")
                       /\ messages' = messages)
       /\ \A i \in DOMAIN messages' :
             messages'[i].recipientId # NULL
             => messages'[i].recipientId \in Users]_vars

\* C16: no two messages have the same non-null linkToken and no two
\* proximity sessions have the same proximityToken; an insert whose token is
\* already stored adds no row.
C16_TokensUnique ==
    /\ \A i, j \in DOMAIN messages :
          (i # j /\ messages[i].linkToken # NULL)
          => messages[i].linkToken # messages[j].linkToken
    /\ \A i, j \in DOMAIN sessions :
          i # j => sessions[i].proximityToken # sessions[j].proximityToken

\* A create has just drawn the token of the stored message and was refused,
\* next to a message without a token; both session tokens are taken.
C16_Witness ==
    /\ resp = Reply("create", 500, "ServerError")
    /\ Len(sessions) = 2
    /\ \E i, j \in DOMAIN messages :
          messages[i].linkToken # NULL /\ messages[j].linkToken = NULL

\* The sessions whose proximity token is t.
SessionsOf(t) == {i \in DOMAIN sessions : sessions[i].proximityToken = t}

\* The send step turned its request away: nothing is left to be written and
\* no row of either table changed.
AttachTurnedAway ==
    attaching' = attaching /\ messages' = messages /\ sessions' = sessions

C18_OneAttachWins ==
    [][/\ \A r \in BagToSet(attaching) :
             (AttachMessageUpdate(r)
                 /\ sessions[r.sessionId].messageId # None)
             => (resp'.code # 200 /\ sessions' = sessions)
       /\ attaching = EmptyBag
          => \A i \in DOMAIN messages :
                \E sid \in DOMAIN sessions : sessions[sid].messageId = Some(i)]_vars

\* The answers by which send turns a request away.
AttachRejections == {400, 403, 404, 410}

\* C19: a send with empty content, with an unknown token, by a caller who is
\* not the initiator, or after expiresAt is turned away with one of 400, 404,
\* 403, 410, creating no message and leaving the session as it is; the answer
\* is 400 for empty content, and 404, 403 or 410 when that is the one thing
\* wrong with the request.
C19_AttachRejections ==
    [][\A u \in Users, t \in ProximityTokens, content \in Contents :
          AttachMessageFind(u, t, content)
          => /\ ContentMissing(content)
                => /\ resp' = Reply("attach", 400, "Validation")
                   /\ AttachTurnedAway
             /\ SessionsOf(t) = {}
                => /\ resp'.code \in AttachRejections
                   /\ AttachTurnedAway
                   /\ ~ContentMissing(content)
                         => resp' = Reply("attach", 404, "NotFound")
             /\ \A sid \in SessionsOf(t) :
                   /\ sessions[sid].initiatorId # u
                      => /\ resp'.code \in AttachRejections
                         /\ AttachTurnedAway
                         /\ (~ContentMissing(content)
                                /\ ~SessionExpired(sessions[sid], now))
                               => resp' = Reply("attach", 403, "Forbidden")
                   /\ SessionExpired(sessions[sid], now)
                      => /\ resp'.code \in AttachRejections
                         /\ AttachTurnedAway
                         /\ (~ContentMissing(content)
                                /\ sessions[sid].initiatorId = u)
                               => resp' = Reply("attach", 410, "Expired")]_vars

\* The initiator's send on the expired, still empty session has just been
\* answered 410; no message exists.
C19_Witness ==
    /\ resp = Reply("attach", 410, "Expired")
    /\ messages = <<>>
    /\ attaching = EmptyBag
    /\ \E sid \in DOMAIN sessions :
          SessionExpired(sessions[sid], now) /\ sessions[sid].messageId = None

\* Sessions that have a message attached.
Attached == {sid \in DOMAIN sessions : sessions[sid].messageId # None}

AttachedIds == {sessions[sid].messageId[1] : sid \in Attached}

\* C21: the accept or reject that answers a message attached through a
\* session, while it has no recipient, leaves it with one, and once the
\* message is answered a request by a user who is not its recipient is
\* turned away.
C21_ProximityResponderOwns ==
    [][/\ \A r \in BagToSet(inflight) :
             (/\ AcceptUpdate(r) \/ RejectUpdate(r)
              /\ r.id \in AttachedIds
              /\ messages[r.id].recipientId = NULL)
             => messages'[r.id].recipientId # NULL
       /\ \A u \in Users :
             \A i \in AttachedIds :
                (Terminal(messages[i]) /\ NotRecipient(messages[i], u))
                => /\ AcceptFind(u, i) => TurnedAway
                   /\ RejectFind(u, i) => TurnedAway]_vars

\* C22: once a user has connected to a session and its message has been
\* retrieved, a connect to that session by a different user does not succeed.
C22_OneRecipientConsumes ==
    [][\A v \in Callers, t \in ProximityTokens :
          \A sid \in SessionsOf(t) :
             (/\ Connect(v, t)
              /\ sid \in history.retrieved
              /\ \E c \in history.connected : c[1] = sid /\ c[2] # v)
             => resp'.code # 200]_vars

\* The step wrote no row and left no request to be written.
NothingWritten ==
    /\ messages' = messages /\ sessions' = sessions
    /\ attaching' = attaching /\ inflight' = inflight

\* C23: connect answers 404 for an unknown token, else 410 when now >
\* expiresAt, else 400 when the caller is the initiator, else it succeeds
\* and reports hasMessage = (messageId is set); whatever it answers, it
\* changes no session and no message.
C23_ConnectReadsOnly ==
    [][\A u \in Users, t \in ProximityTokens :
          Connect(u, t)
          => /\ NothingWritten
             /\ SessionsOf(t) = {} => resp' = Reply("connect", 404, "NotFound")
             /\ \A sid \in SessionsOf(t) :
                   IF now > sessions[sid].expiresAt
                   THEN resp' = Reply("connect", 410, "Expired")
                   ELSE IF u = sessions[sid].initiatorId
                   THEN resp'.code = 400
                   ELSE /\ resp'.op = "connect" /\ resp'.code = 200
                        /\ resp'.body.hasMessage
                              = (sessions[sid].messageId # None)]_vars

\* A connect at the very instant of expiresAt has just succeeded on a session
\* with a message, and reported it.
C23_Witness ==
    /\ resp.op = "connect" /\ resp.code = 200
    /\ resp.body.hasMessage
    /\ sessions[resp.body.sessionId].expiresAt = now
    /\ sessions[resp.body.sessionId].messageId # None

\* C24: fetchSessionMessage answers 404 NotFound for an unknown token, else
\* 410 Expired when now > expiresAt, message or not, else 404 NotFound when
\* the session has no message, else it returns the message the session points
\* to; whatever it answers, it changes no session and no message.
C24_FetchAnswers ==
    [][\A t \in ProximityTokens :
          FetchSessionMessage(t)
          => /\ NothingWritten
             /\ SessionsOf(t) = {} => resp' = Reply("fetch", 404, "NotFound")
             /\ \A sid \in SessionsOf(t) :
                   IF now > sessions[sid].expiresAt
                   THEN resp' = Reply("fetch", 410, "Expired")
                   ELSE IF sessions[sid].messageId = None
                   THEN resp' = Reply("fetch", 404, "NotFound")
                   ELSE /\ resp'.op = "fetch" /\ resp'.code = 200
                        /\ resp'.body.id = sessions[sid].messageId[1]
                        /\ resp'.body.message = messages[resp'.body.id]]_vars

\* A fetch on an expired session that has a message has just been answered
\* 410.
C24_Witness ==
    /\ resp = Reply("fetch", 410, "Expired")
    /\ \E sid \in Attached : now > sessions[sid].expiresAt

RefersTo(u) ==
    \/ \E i \in DOMAIN messages :
          messages[i].senderId = u \/ messages[i].recipientId = u
    \/ \E i \in DOMAIN sessions : sessions[i].initiatorId = u

\* C26: after a successful confirmed deletion by u no message has u as
\* sender or recipient and no proximity session of u remains; a deletion
\* without confirm answers 400 and changes nothing.
C26_DeletionErases ==
    [][\A u \in Users, confirm \in BOOLEAN :
          DeleteAccount(u, confirm)
          => /\ (confirm /\ resp'.code = 200) => ~RefersTo(u)'
             /\ ~confirm => /\ resp'.code = 400
                            /\ NothingWritten]_vars

\* C27: a respond to a connection by a user other than its target answers
\* 403, and by its target on an accepted or rejected connection answers 409;
\* both leave the connection as it was, and with one request at a time no
\* step changes the status of a connection that is not pending.
C27_ConnectionOnlyFromPending ==
    [][/\ \A u \in Callers, id \in ConnectionIds, action \in ValidActions :
             (RespondConnectionFind(u, id, action) /\ FindConnection(id) # None)
             => LET c == FindConnection(id)[1]
                IN  /\ c.targetUserId # u
                       => /\ resp' = Reply("conn-respond", 403, "Forbidden")
                          /\ inflight' = inflight
                          /\ connections' = connections
                    /\ (c.targetUserId = u /\ c.status # "pending")
                       => /\ resp' = Reply("conn-respond", 409, "NotPending")
                          /\ inflight' = inflight
                          /\ connections' = connections
       /\ \A i \in DOMAIN connections :
             connections[i].status # "pending"
             => connections'[i].status = connections[i].status]_vars

\* The target's second answer to a connection it had accepted was refused.
C27_Witness ==
    /\ resp = Reply("conn-respond", 409, "NotPending")
    /\ \E i \in DOMAIN connections :
          connections[i].live /\ connections[i].status = "accepted"

\* C28: of the concurrent responds to one pending connection at most one
\* succeeds: a respond that reports success found the connection pending
\* when it wrote, and the stored status is the one it asked for.
C28_OneResponseWins ==
    [][\A r \in BagToSet(inflight) :
          (RespondConnectionUpdate(r) /\ resp'.code = 200)
          => /\ connections[r.id].status = "pending"
             /\ connections'[r.id].status = r.status]_vars

\* The reset-token rows that are stored, unused and carry token t.
UnusedRows(t) ==
    {i \in DOMAIN resetTokens :
        /\ resetTokens[i].live
        /\ resetTokens[i].token = t
        /\ resetTokens[i].usedAt = None}

\* The reset-token rows that are stored, used and carry token t.
UsedRows(t) ==
    {i \in DOMAIN resetTokens :
        /\ resetTokens[i].live
        /\ resetTokens[i].token = t
        /\ resetTokens[i].usedAt # None}

\* Once a token is marked used, a reset with it answers 400 and a validation
\* answers 404; a reset with an unused token past expiresAt answers 410 and
\* leaves it unused; a validation writes nothing.
ResetTokenSpent ==
    \A t \in ResetTokenValues :
       /\ UsedRows(t) # {}
          => /\ ResetPasswordFind(t, 8)
                => /\ resp' = Reply("reset", 400, "Invalid")
                   /\ inflight' = inflight
             /\ ValidateResetToken(t)
                => resp' = Reply("validate", 404, "NotFound")
       /\ \A i \in UnusedRows(t) :
             (ResetPasswordFind(t, 8) /\ now > resetTokens[i].expiresAt)
             => /\ resp' = Reply("reset", 410, "Expired")
                /\ inflight' = inflight
                /\ resetTokens' = resetTokens
       /\ ValidateResetToken(t) => resetTokens' = resetTokens

\* A reset that reports success found its token unused when it marked it.
ResetSucceedsOnce ==
    \A r \in BagToSet(inflight) :
       (ResetPasswordUpdate(r) /\ resp'.code = 200)
       => resetTokens[r.id].usedAt = None

\* C29: a reset token is single-use and expiring: after a successful reset
\* every later reset with it answers 400 and every later validation 404; a
\* token past expiresAt is answered 410 and not marked used; a validation
\* never changes the token; and two concurrent resets with one unused token
\* do not both succeed.
C29_ResetTokenSingleUse == [][ResetTokenSpent /\ ResetSucceedsOnce]_vars

\* C30: each push token value is stored in at most one row, and after a
\* successful registration by u it belongs to u; a registration of a value
\* that is already stored, be it another user's or one's own, adds no row.
C30_OneRowPerPushToken ==
    [][/\ \A token \in PushTokenInputs : Cardinality(PushRowsOf(token)') <= 1
       /\ \A r \in BagToSet(inflight) :
             (RegisterPushTokenWrite(r) /\ resp'.code = 200)
             => /\ \A i \in PushRowsOf(r.token)' :
                      pushTokens'[i].userId = r.recipientId
                /\ PushRowsOf(r.token) # {}
                      => Len(pushTokens') = Len(pushTokens)]_vars

====
